---------------------------- MODULE Spec2Model ----------------------------
(***************************************************************************)
(* A model of chunkdup: the chunk catalog (sums.py, differ.py, chunkdup.py),*)
(* the alignment of two chunk sequences (dire.py, differ.py) and the        *)
(* fixed-width bar plan (differ.fill_line, blueprint.py).                   *)
(*                                                                          *)
(* The specifications share the variables:                                  *)
(*   SpecAlign   - Differ._compare on two chunk sequences, in both orders   *)
(*   SpecFixture - the same on the lists of the example of Differ.compare   *)
(*   SpecCatalog - Chunksums.parse, chunk2file_id, Differ._pairs,           *)
(*                 chunkdup.find_dup_files                                  *)
(*   SpecDiffer  - Differ._pairs and Differ.dups on two parsed catalogs     *)
(*   SpecTrees   - the same on the catalogs of two directory trees          *)
(*   SpecLookup  - Chunksums.get_file and chunkdiff.get_info                *)
(*   SpecIndex   - descriptors added to a catalog whose index is read       *)
(*   SpecRender  - differ.fill_line and Blueprint on one alignment          *)
(*   SpecRerender - one CompareResult drawn again and again                 *)
(*   SpecSteps   - the generator utils.iter_steps, one next() at a time     *)
(* A specification leaves the variables of the others at their idle values. *)
(***************************************************************************)
EXTENDS Integers, Sequences, FiniteSets, TLC

VARIABLES
    fileA, fileB,       \* the chunk lists of the two files given to _compare
    cr12, cr21,         \* CompareResult of _compare(A, B) and of _compare(B, A)
    sums,               \* sums[k]: the lines parsed so far into catalog k
    hashes,             \* Chunksums.hashes of catalog k: file hash -> File
    files,              \* Chunksums.files of catalog k: path -> file hash
    c2f,                \* Chunksums._chunk2file_id of catalog k (None until read)
    pairs,              \* Differ.__pairs (None until read)
    dup_files,          \* the list returned by chunkdup.find_dup_files
    dups,               \* Differ.__dups (None until read)
    lookup,             \* what the last Chunksums.get_file / get_info gave
    bar_width, dire, total,   \* the arguments of fill_line / Blueprint
    bp,                 \* the Blueprint made from them (None until made)
    lines,              \* what differ.fill_line returned for them
    stairs,             \* the list given to utils.iter_steps
    gen                 \* the generator iter_steps(stairs): its frame and what
                        \* it has yielded

vars == <<fileA, fileB, cr12, cr21, sums, hashes, files, c2f, pairs, dup_files,
          dups, lookup,
          bar_width, dire, total, bp, lines, stairs, gen>>

alignVars == <<fileA, fileB, cr12, cr21>>
catalogVars == <<sums, hashes, files, c2f, pairs, dup_files, dups, lookup>>
renderVars == <<bar_width, dire, total, bp, lines>>
stepVars == <<stairs, gen>>

\* Python's None, for a field not yet computed; every computed value is a
\* record with another status
None == [status |-> "None"]

-----------------------------------------------------------------------------
(* Helpers on sequences and numbers *)

Max(x, y) == IF x >= y THEN x ELSE y

Range(s) == {s[i] : i \in DOMAIN s}

RECURSIVE SumSeq(_)
SumSeq(s) == IF s = <<>> THEN 0 ELSE s[1] + SumSeq(Tail(s))

\* s[lo:hi] of Python, 0-based and half-open
Slice(s, lo, hi) == [k \in 1..(hi - lo) |-> s[lo + k]]

RECURSIVE SeqsUpTo(_, _)
SeqsUpTo(S, n) ==
    IF n = 0 THEN {<<>>}
    ELSE LET shorter == SeqsUpTo(S, n - 1)
         IN shorter \cup {Append(s, x) : s \in {t \in shorter : Len(t) = n - 1}, x \in S}

-----------------------------------------------------------------------------
(* Bounds of the alignment model *)

\* longest chunk list given to _compare
MaxLen == 3

\* the chunks the two lists are drawn from: <<chunk hash, size>>.  Chunking is
\* deterministic, so a hash always comes with the same size; "c" is a
\* zero-size chunk.
ChunkPool == {<<"a", 1>>, <<"b", 2>>, <<"c", 0>>}

ChunkLists == SeqsUpTo(ChunkPool, MaxLen)

\* File.hashes, File.sizes, File.size of a chunk list
FileHashes(chunks) == [i \in DOMAIN chunks |-> chunks[i][1]]
FileSizes(chunks) == [i \in DOMAIN chunks |-> chunks[i][2]]
FileSize(chunks) == SumSeq(FileSizes(chunks))


-----------------------------------------------------------------------------
(* difflib.SequenceMatcher as Dire.get uses it (dire.py:86): no junk         *)
(* predicate, and lists shorter than 200 items, so no autojunk.  Indexes are *)
(* Python's: 0-based, ranges half-open.                                      *)

\* newj2len[j] in the pass for a[i]: the length of the common run that ends
\* at a[i], b[j] and stays inside the window that starts at alo, blo
RECURSIVE RunLen(_, _, _, _, _, _)
RunLen(a, b, i, j, alo, blo) ==
    IF a[i + 1] /= b[j + 1] THEN 0
    ELSE IF i > alo /\ j > blo THEN 1 + RunLen(a, b, i - 1, j - 1, alo, blo)
    ELSE 1

\* find_longest_match as it would be if it scanned b before a and kept a
\* block of one item: the first matching cell of the leftmost column of b
\* that has one, taking the last such item of a
find_match_by_column(a, b, alo, ahi, blo, bhi) ==
    LET cells == {c \in (alo..(ahi - 1)) \X (blo..(bhi - 1)) : a[c[1] + 1] = b[c[2] + 1]}
    IN IF cells = {} THEN <<alo, blo, 0>>
       ELSE LET first == CHOOSE c \in cells : \A d \in cells :
                             c[2] < d[2] \/ (c[2] = d[2] /\ c[1] >= d[1])
            IN <<first[1], first[2], 1>>

\* find_longest_match as it would be if the scan kept its first match instead
\* of the longest: a block of one item at the first cell that matches
find_first_match(a, b, alo, ahi, blo, bhi) ==
    LET cells == {c \in (alo..(ahi - 1)) \X (blo..(bhi - 1)) : a[c[1] + 1] = b[c[2] + 1]}
    IN IF cells = {} THEN <<alo, blo, 0>>
       ELSE LET first == CHOOSE c \in cells : \A d \in cells :
                             c[1] < d[1] \/ (c[1] = d[1] /\ c[2] <= d[2])
            IN <<first[1], first[2], 1>>

\* The scan takes a new best only when k > bestsize, i ascending and j
\* ascending within one i: the result is the first cell, in that order, that
\* ends a run of the greatest length.  Without junk the two extension loops
\* change nothing.
find_longest_match(a, b, alo, ahi, blo, bhi) ==
    LET cells == {c \in (alo..(ahi - 1)) \X (blo..(bhi - 1)) : a[c[1] + 1] = b[c[2] + 1]}
        k(c) == RunLen(a, b, c[1], c[2], alo, blo)
    IN IF cells = {} THEN <<alo, blo, 0>>
       ELSE LET best == CHOOSE c \in cells : \A d \in cells :
                            \/ k(d) < k(c)
                            \/ /\ k(d) = k(c)
                               /\ \/ c[1] < d[1]
                                  \/ c[1] = d[1] /\ c[2] <= d[2]
            IN <<best[1] - k(best) + 1, best[2] - k(best) + 1, k(best)>>

\* The blocks get_matching_blocks collects from its queue, after its sort():
\* the blocks left of the longest match, the match, the blocks right of it.
RECURSIVE matching_blocks(_, _, _, _, _, _)
matching_blocks(a, b, alo, ahi, blo, bhi) ==
    LET x == find_longest_match(a, b, alo, ahi, blo, bhi)
        i == x[1]
        j == x[2]
        k == x[3]
    IN IF k = 0 THEN <<>>
       ELSE (IF alo < i /\ blo < j
                THEN matching_blocks(a, b, alo, i, blo, j) ELSE <<>>)
            \o <<x>>
            \o (IF i + k < ahi /\ j + k < bhi
                   THEN matching_blocks(a, b, i + k, ahi, j + k, bhi) ELSE <<>>)

\* the loop of get_matching_blocks that merges adjacent blocks; cur is
\* (i1, j1, k1)
RECURSIVE collapse(_, _)
collapse(blocks, cur) ==
    IF blocks = <<>> THEN (IF cur[3] > 0 THEN <<cur>> ELSE <<>>)
    ELSE LET nxt == Head(blocks)
         IN IF cur[1] + cur[3] = nxt[1] /\ cur[2] + cur[3] = nxt[2]
               THEN collapse(Tail(blocks), <<cur[1], cur[2], cur[3] + nxt[3]>>)
               ELSE (IF cur[3] > 0 THEN <<cur>> ELSE <<>>)
                    \o collapse(Tail(blocks), nxt)

get_matching_blocks(a, b) ==
    Append(collapse(matching_blocks(a, b, 0, Len(a), 0, Len(b)), <<0, 0, 0>>),
           <<Len(a), Len(b), 0>>)

\* get_opcodes as it would be if it gave the matching blocks only, and no
\* opcode for what lies between them
opcodes_matches_only(blocks, i, j) ==
    LET found == SelectSeq(blocks, LAMBDA x : x[3] > 0)
    IN [n \in DOMAIN found |->
           <<"equal", found[n][1], found[n][1] + found[n][3],
             found[n][2], found[n][2] + found[n][3]>>]

\* get_opcodes' loop over the matching blocks, from position (i, j)
RECURSIVE opcodes_from(_, _, _)
opcodes_from(blocks, i, j) ==
    IF blocks = <<>> THEN <<>>
    ELSE LET ai == Head(blocks)[1]
             bj == Head(blocks)[2]
             size == Head(blocks)[3]
             tag == IF i < ai /\ j < bj THEN "replace"
                    ELSE IF i < ai THEN "delete"
                    ELSE IF j < bj THEN "insert"
                    ELSE ""
         IN (IF tag /= "" THEN <<<<tag, i, ai, j, bj>>>> ELSE <<>>)
            \o (IF size > 0
                   THEN <<<<"equal", ai, ai + size, bj, bj + size>>>> ELSE <<>>)
            \o opcodes_from(Tail(blocks), ai + size, bj + size)

get_opcodes(a, b) == opcodes_from(get_matching_blocks(a, b), 0, 0)

-----------------------------------------------------------------------------
(* dire.py *)

A_VALUABLE(tag) == tag \in {"delete", "replace", "equal"}

B_VALUABLE(tag) == tag \in {"insert", "replace", "equal"}

\* DiffItem.__init__ as it would be if the value counted both sides
DiffItemBothSides(tag, a_value, b_value) ==
    [type |-> tag, a |-> a_value, b |-> b_value, value |-> a_value + b_value]

\* DiffItem.__init__: type, a, b and the value that counts
DiffItem(tag, a_value, b_value) ==
    [type |-> tag, a |-> a_value, b |-> b_value,
     value |-> IF A_VALUABLE(tag) THEN a_value ELSE b_value]

\* Dire.get with reduce=True: one DiffItem for each opcode, carrying the sums
\* of the sizes of its two slices
Dire_get(a, b, a_value, b_value) ==
    LET ops == get_opcodes(a, b)
    IN [n \in DOMAIN ops |->
           DiffItem(ops[n][1],
                    SumSeq(Slice(a_value, ops[n][2], ops[n][3])),
                    SumSeq(Slice(b_value, ops[n][4], ops[n][5])))]

-----------------------------------------------------------------------------
(* differ.py: Differ._compare *)

\* sum([x.value for x in dire])
DireTotal(d) == SumSeq([n \in DOMAIN d |-> d[n].value])

\* matches as it would be without the test for EQUAL
DireMatchesAnyType(d) == SumSeq([n \in DOMAIN d |-> d[n].value])

\* sum([x.value for x in dire if x.type.name == "EQUAL"])
DireMatches(d) ==
    SumSeq([n \in DOMAIN d |-> IF d[n].type = "equal" THEN d[n].value ELSE 0])

\* Differ._compare as it would be with the ratio matches / (size1 + size2 -
\* matches) in place of 2*matches / (size1 + size2)
Differ_compare_jaccard(chunks1, chunks2) ==
    LET d == Dire_get(FileHashes(chunks1), FileHashes(chunks2),
                      FileSizes(chunks1), FileSizes(chunks2))
        den == FileSize(chunks1) + FileSize(chunks2)
    IN IF den = 0 THEN [status |-> "ZeroDivisionError"]
       ELSE [status |-> "ok", total |-> DireTotal(d),
             ratio |-> [num |-> DireMatches(d), den |-> den - DireMatches(d)],
             dire |-> d]

\* Differ._compare on two chunk lists.  The ratio 2*matches / (size1 + size2)
\* is kept as the fraction num/den; the division raises ZeroDivisionError
\* when both sizes are 0 and no CompareResult is made.
Differ_compare(chunks1, chunks2) ==
    LET d == Dire_get(FileHashes(chunks1), FileHashes(chunks2),
                      FileSizes(chunks1), FileSizes(chunks2))
        den == FileSize(chunks1) + FileSize(chunks2)
    IN IF den = 0 THEN [status |-> "ZeroDivisionError"]
       ELSE [status |-> "ok", total |-> DireTotal(d),
             ratio |-> [num |-> 2 * DireMatches(d), den |-> den],
             dire |-> d]

-----------------------------------------------------------------------------
(* Python containers: a dict is the sequence of its <<key, value>> items in  *)
(* insertion order; assigning to a key it holds keeps the key's position.    *)

DictKeys(d) == {d[i][1] : i \in DOMAIN d}

DictGet(d, k) == d[CHOOSE i \in DOMAIN d : d[i][1] = k][2]

DictSet(d, k, v) ==
    IF k \in DictKeys(d)
    THEN [i \in DOMAIN d |-> IF d[i][1] = k THEN <<k, v>> ELSE d[i]]
    ELSE Append(d, <<k, v>>)

\* d.setdefault(k, []).append(x)
DictAppend(d, k, x) ==
    DictSet(d, k, Append(IF k \in DictKeys(d) THEN DictGet(d, k) ELSE <<>>, x))

\* tuples of two integers, in Python's order
PairLess(p, q) == p[1] < q[1] \/ (p[1] = q[1] /\ p[2] < q[2])

\* sorted(l) for a list of such tuples
RECURSIVE Sorted(_)
Sorted(l) ==
    IF l = <<>> THEN <<>>
    ELSE LET rest == Sorted(Tail(l))
             before == SelectSeq(rest, LAMBDA q : ~PairLess(Head(l), q))
             after == SelectSeq(rest, LAMBDA q : PairLess(Head(l), q))
         IN before \o <<Head(l)>> \o after

\* set(l), kept as the list of its members: each item of l once
RECURSIVE Dedup(_)
Dedup(l) ==
    IF l = <<>> THEN <<>>
    ELSE LET init == Dedup(SubSeq(l, 1, Len(l) - 1))
         IN IF l[Len(l)] \in Range(init) THEN init ELSE Append(init, l[Len(l)])

\* [f(x, y) for x in xs for y in ys] with f the pair
RECURSIVE CrossJoin(_, _)
CrossJoin(xs, ys) ==
    IF xs = <<>> THEN <<>>
    ELSE [n \in DOMAIN ys |-> <<Head(xs), ys[n]>>] \o CrossJoin(Tail(xs), ys)

-----------------------------------------------------------------------------
(* Bounds of the catalog model *)

\* most lines parsed into one catalog
MaxFiles == 2

\* The overall file hashes (bee1, bee2, bee3 as 1, 2, 3, in their byte order)
\* and the chunk list of the content each one names: an overall hash is a
\* hash of the content, so it fixes the chunks.  Files 1 and 2 share chunks a
\* and b, file 1 repeats a chunk, file 3 shares nothing with them and has
\* zero size.  File 4 (bee4), of the size of file 1 with the same chunks in
\* another order, is in the catalogs of SpecTrees only.
FileIds == {1, 2, 3}

Content(h) ==
    CASE h = 1 -> <<<<"a", 1>>, <<"a", 1>>, <<"b", 2>>>>
      [] h = 2 -> <<<<"a", 1>>, <<"b", 2>>>>
      [] h = 3 -> <<<<"c", 0>>>>
      [] h = 4 -> <<<<"a", 1>>, <<"b", 2>>, <<"a", 1>>>>

Paths == {"p", "q"}

-----------------------------------------------------------------------------
(* sums.py: File and Chunksums *)

\* File.__init__ (through File.parse of one line)
File(hash, path) ==
    [hash |-> hash, path |-> path, chunks |-> Content(hash),
     size |-> FileSize(Content(hash))]

\* the lines a chunksums file can hold
Lines == {File(h, p) : h \in FileIds, p \in Paths}

\* Chunksums.chunk2file_id, the inner loop: the chunks of one file
RECURSIVE index_chunks(_, _, _)
index_chunks(idx, chunks, chunksum) ==
    IF chunks = <<>> THEN idx
    ELSE index_chunks(DictAppend(idx, Head(chunks), chunksum), Tail(chunks), chunksum)

\* Chunksums.chunk2file_id, the outer loop over self.hashes.items()
RECURSIVE index_files(_, _)
index_files(idx, hash_items) ==
    IF hash_items = <<>> THEN idx
    ELSE index_files(index_chunks(idx, Head(hash_items)[2].chunks, Head(hash_items)[1]),
                     Tail(hash_items))

\* the dict Chunksums.chunk2file_id builds: chunk -> list of file hashes
chunk2file_id(hashes_k) == index_files(<<>>, hashes_k)

-----------------------------------------------------------------------------
(* differ.py: Differ._pairs *)

\* file_id_pairs: for each chunk of both indexes, the cross join of its
\* owners.  same_chunks is a set; its members are taken in the order of the
\* first index, which the set() and sorted() that follow make irrelevant.
RECURSIVE file_id_pairs(_, _, _)
file_id_pairs(same_chunks, chunks1, chunks2) ==
    IF same_chunks = <<>> THEN <<>>
    ELSE CrossJoin(DictGet(chunks1, Head(same_chunks)),
                   DictGet(chunks2, Head(same_chunks)))
         \o file_id_pairs(Tail(same_chunks), chunks1, chunks2)

\* the keys of chunks1 that chunks2 has too: set(chunks1) & set(chunks2)
SameChunks(chunks1, chunks2) ==
    LET keys == [i \in DOMAIN chunks1 |-> chunks1[i][1]]
    IN SelectSeq(keys, LAMBDA c : c \in DictKeys(chunks2))

\* what sorted(file_id_pairs) would be without the set()
pairs_without_set(chunks1, chunks2) ==
    Sorted(file_id_pairs(SameChunks(chunks1, chunks2), chunks1, chunks2))

\* Differ._pairs: sorted(set(file_id_pairs))
Differ_pairs(chunks1, chunks2) ==
    Sorted(Dedup(file_id_pairs(SameChunks(chunks1, chunks2), chunks1, chunks2)))

-----------------------------------------------------------------------------
(* sums.py: Chunksums.parse, Chunksums.get_file;  differ.py: Differ.dups *)

\* Chunksums.parse: cs.hashes after the lines of a file
RECURSIVE parse_hashes(_, _)
parse_hashes(acc, lines_k) ==
    IF lines_k = <<>> THEN acc
    ELSE parse_hashes(DictSet(acc, Head(lines_k).hash, Head(lines_k)), Tail(lines_k))

\* Chunksums.parse: cs.files after the lines of a file
RECURSIVE parse_files(_, _)
parse_files(acc, lines_k) ==
    IF lines_k = <<>> THEN acc
    ELSE parse_files(DictSet(acc, Head(lines_k).path, Head(lines_k).hash), Tail(lines_k))

\* Chunksums.get_file(path) as it would be with self.files.get(path) and no
\* exception: the File under the hash None, which there is not
get_file_unchecked(files_k, hashes_k, path) ==
    IF path \in DictKeys(files_k)
    THEN [status |-> "ok", file |-> DictGet(hashes_k, DictGet(files_k, path))]
    ELSE [status |-> "KeyError"]

\* Chunksums.get_file(path)
get_file(files_k, hashes_k, path) ==
    IF path \notin DictKeys(files_k) THEN [status |-> "FileNotFoundError"]
    ELSE [status |-> "ok", file |-> DictGet(hashes_k, DictGet(files_k, path))]

\* the key of a pair of files in the dict of Differ.dups
DupsKey(f1, f2) == <<f1.size, f1.path, f2.size, f2.path>>

\* One pass of the loop of Differ.dups, from the comparison on: an exception
\* of _compare ends the loop and the call; a pair of one path with ratio 1.0
\* is skipped; any other result is stored under (f1.size, f1.path, f2.size,
\* f2.path)
dups_store(acc, f1, f2, cr) ==
    IF cr.status /= "ok" THEN [status |-> cr.status, dict |-> acc]
    ELSE IF f1.path = f2.path /\ cr.ratio.num = cr.ratio.den
    THEN [status |-> "ok", dict |-> acc]
    ELSE [status |-> "ok",
          dict |-> DictSet(acc, DupsKey(f1, f2),
                           [file1 |-> f1, file2 |-> f2, total |-> cr.total,
                            ratio |-> cr.ratio, dire |-> cr.dire])]

\* One pass of the loop of Differ.dups: a pair whose opposite is in dups is
\* skipped ("avoid compare two files twice"), the others are compared
dups_pass(acc, f1, f2) ==
    IF DupsKey(f2, f1) \in DictKeys(acc) THEN [status |-> "ok", dict |-> acc]
    ELSE dups_store(acc, f1, f2, Differ_compare(f1.chunks, f2.chunks))

\* the loop of Differ.dups over self._pairs, from the dict res.dict on
RECURSIVE dups_loop(_, _, _, _)
dups_loop(res, pair_list, hashes1, hashes2) ==
    IF pair_list = <<>> \/ res.status /= "ok" THEN res
    ELSE dups_loop(dups_pass(res.dict,
                             DictGet(hashes1, Head(pair_list)[1]),
                             DictGet(hashes2, Head(pair_list)[2])),
                   Tail(pair_list), hashes1, hashes2)

\* Differ.dups: list(dups.values()), or the exception that ended the loop
Differ_dups(pair_list, hashes1, hashes2) ==
    LET res == dups_loop([status |-> "ok", dict |-> <<>>], pair_list, hashes1, hashes2)
    IN IF res.status /= "ok" THEN [status |-> res.status]
       ELSE [status |-> "ok", list |-> [n \in DOMAIN res.dict |-> res.dict[n][2]]]

-----------------------------------------------------------------------------
(* chunkdup.py: CheckSumIndex, diff_ratio, find_dup_files.  The list that    *)
(* chunksum.parser.parse_chunksums yields is the list of the parsed lines;   *)
(* a file id is the 0-based position of its line, a chunk is its hash.       *)

\* CheckSumIndex.__init__, the inner loop over s["chunks"]
RECURSIVE checksum_index_chunks(_, _, _)
checksum_index_chunks(idx, chunks, file_id) ==
    IF chunks = <<>> THEN idx
    ELSE LET c == Head(chunks)[1]
             size == Head(chunks)[2]
         IN checksum_index_chunks(
                [idx EXCEPT !.chunk2file_id = DictAppend(@, c, file_id),
                            !.chunk2size = DictSet(@, c, size),
                            !.file_id2chunk = DictAppend(@, file_id, c)],
                Tail(chunks), file_id)

\* CheckSumIndex.__init__, the loop over sums
RECURSIVE checksum_index_from(_, _, _)
checksum_index_from(idx, lines_k, file_id) ==
    IF lines_k = <<>> THEN idx
    ELSE LET s == Head(lines_k)
             with_file ==
                 [idx EXCEPT !.files = DictSet(@, s.path,
                                               [id |-> file_id, size |-> FileSize(s.chunks)]),
                             !.file_ids = DictSet(@, file_id, s.path),
                             !.file_id2chunk = DictSet(@, file_id, <<>>)]
         IN checksum_index_from(checksum_index_chunks(with_file, s.chunks, file_id),
                                Tail(lines_k), file_id + 1)

CheckSumIndex(lines_k) ==
    checksum_index_from([files |-> <<>>, file_ids |-> <<>>, chunk2file_id |-> <<>>,
                         chunk2size |-> <<>>, file_id2chunk |-> <<>>],
                        lines_k, 0)

\* sizes.get(chunk, 0)
SizeGet(sizes, chunk) == IF chunk \in DictKeys(sizes) THEN DictGet(sizes, chunk) ELSE 0

\* diff_ratio: the fraction 2*matches / (size1 + size2), or the
\* ZeroDivisionError of a zero denominator
diff_ratio(a, b, sizes1, sizes2) ==
    LET ops == get_opcodes(a, b)
        size_of(chunk) == IF SizeGet(sizes1, chunk) /= 0 THEN SizeGet(sizes1, chunk)
                          ELSE SizeGet(sizes2, chunk)
        matches == SumSeq([n \in DOMAIN ops |->
                              IF ops[n][1] /= "equal" THEN 0
                              ELSE SumSeq([k \in 1..(ops[n][3] - ops[n][2]) |->
                                              size_of(a[ops[n][2] + k])])])
        size1 == SumSeq([n \in DOMAIN a |-> SizeGet(sizes1, a[n])])
        size2 == SumSeq([n \in DOMAIN b |-> SizeGet(sizes2, b[n])])
    IN IF size1 + size2 = 0 THEN [status |-> "ZeroDivisionError"]
       ELSE [status |-> "ok", num |-> 2 * matches, den |-> size1 + size2]

\* find_dup_files: file_id_pairs = list(set(file_id_pairs)), here in sorted
\* order (a set's order is not specified, and find_dup sorts the result), and
\* one tuple (ratio, size1, path1, size2, path2) for each pair.  A
\* ZeroDivisionError of diff_ratio ends the call.
find_dup_files(index1, index2) ==
    LET chunks1 == index1.chunk2file_id
        chunks2 == index2.chunk2file_id
        id_pairs == Sorted(Dedup(file_id_pairs(SameChunks(chunks1, chunks2),
                                               chunks1, chunks2)))
        ratio(pr) == diff_ratio(DictGet(index1.file_id2chunk, pr[1]),
                                DictGet(index2.file_id2chunk, pr[2]),
                                index1.chunk2size, index2.chunk2size)
        path1(pr) == DictGet(index1.file_ids, pr[1])
        path2(pr) == DictGet(index2.file_ids, pr[2])
    IN IF \E n \in DOMAIN id_pairs : ratio(id_pairs[n]).status /= "ok"
       THEN [status |-> "ZeroDivisionError"]
       ELSE [status |-> "ok",
             file_id_pairs |-> id_pairs,
             dups |-> [n \in DOMAIN id_pairs |->
                          [ratio |-> ratio(id_pairs[n]),
                           size1 |-> DictGet(index1.files, path1(id_pairs[n])).size,
                           path1 |-> path1(id_pairs[n]),
                           size2 |-> DictGet(index2.files, path2(id_pairs[n])).size,
                           path2 |-> path2(id_pairs[n])]]]

-----------------------------------------------------------------------------
(* Bounds of the bar model *)

\* most ops of an alignment that is drawn as a bar
MaxOps == 6

\* widest bar
MaxWidth == 5

\* The ops the alignments are made of: a small Equal, a Replace with unequal
\* sides (its value is its A side), an Insert, and an op of zero-size chunks.
OpPool == {DiffItem("equal", 1, 1), DiffItem("replace", 1, 3),
           DiffItem("insert", 0, 2), DiffItem("equal", 0, 0)}

Dires == SeqsUpTo(OpPool, MaxOps)

\* longest list given to iter_steps, and its greatest item
MaxStairs == 3

MaxStep == 3

StairLists == SeqsUpTo(0..MaxStep, MaxStairs)

-----------------------------------------------------------------------------
(* utils.py: get_order_indexes, iter_steps *)

Min(x, y) == IF x <= y THEN x ELSE y

\* the first n items of a list: islice(l, n) for n >= 0
Take(l, n) == SubSeq(l, 1, Min(n, Len(l)))

\* get_order_indexes as it would be with sorted(...)[::-1] in place of
\* reverse=True: equal values in descending index order
RECURSIVE order_indexes_reversed_from(_, _)
order_indexes_reversed_from(list, left) ==
    IF left = {} THEN <<>>
    ELSE LET i == CHOOSE x \in left : \A y \in left :
                      list[x + 1] > list[y + 1] \/ (list[x + 1] = list[y + 1] /\ x >= y)
         IN <<i>> \o order_indexes_reversed_from(list, left \ {i})

get_order_indexes_reversed(list) ==
    order_indexes_reversed_from(list, 0..(Len(list) - 1))

\* get_order_indexes: the 0-based indexes by descending value; sorted() is
\* stable also with reverse=True, so equal values keep their index order
RECURSIVE get_order_indexes_from(_, _)
get_order_indexes_from(list, left) ==
    IF left = {} THEN <<>>
    ELSE LET i == CHOOSE x \in left : \A y \in left :
                      list[x + 1] > list[y + 1] \/ (list[x + 1] = list[y + 1] /\ x <= y)
         IN <<i>> \o get_order_indexes_from(list, left \ {i})

get_order_indexes(list) == get_order_indexes_from(list, 0..(Len(list) - 1))

\* one pass of "for i in order": the indexes yielded until the first
\* exhausted step
RECURSIVE iter_pass(_, _)
iter_pass(steps, order) ==
    IF order = <<>> \/ steps[Head(order) + 1] = 0 THEN <<>>
    ELSE <<Head(order)>> \o iter_pass(steps, Tail(order))

\* iter_steps as it would be with a single pass over the order
iter_steps_one_pass(steps, order) == iter_pass(steps, order)

\* iter_steps: everything the generator yields.  The order is computed once,
\* from the copy of stairs.
RECURSIVE iter_steps_from(_, _)
iter_steps_from(steps, order) ==
    IF steps[order[1] + 1] <= 0 THEN <<>>
    ELSE LET yielded == iter_pass(steps, order)
         IN yielded
            \o iter_steps_from([n \in DOMAIN steps |->
                                   IF (n - 1) \in Range(yielded) THEN steps[n] - 1
                                   ELSE steps[n]],
                               order)

iter_steps(list) ==
    IF list = <<>> THEN <<>>
    ELSE iter_steps_from(list, get_order_indexes(list))

\* what the list given to iter_steps would hold after the generator gave
\* `taken`, with steps = stairs in place of steps = copy(stairs)
stairs_shared(list, taken) ==
    [n \in DOMAIN list |-> list[n] - Cardinality({m \in DOMAIN taken : taken[m] = n - 1})]

\* what the list given to iter_steps holds after the generator gave `taken`:
\* steps = copy(stairs), so the decrements go to the copy
stairs_after_steps(list, taken) == list

\* The generator iter_steps(stairs), one next() at a time.  Its frame holds
\* steps (its copy of stairs), order, and pos, the 1-based position in order
\* the loop "for i in order" goes on from; yielded is what it has given so far.
gen_created == [status |-> "created", yielded |-> <<>>]

RECURSIVE gen_for(_, _, _, _)
RECURSIVE gen_while(_, _, _)

\* "for i in order" from position pos on: the next index is yielded after
\* steps[i] -= 1, unless order is used up or steps[i] == 0 breaks the loop
gen_for(steps, order, pos, yielded) ==
    IF pos <= Len(order) /\ steps[order[pos] + 1] /= 0
    THEN [status |-> "suspended",
          steps |-> [steps EXCEPT ![order[pos] + 1] = @ - 1],
          order |-> order, pos |-> pos + 1,
          yielded |-> Append(yielded, order[pos])]
    ELSE gen_while(steps, order, yielded)

\* "while steps[order[0]] > 0": another pass over order, or the end
gen_while(steps, order, yielded) ==
    IF steps[order[1] + 1] > 0 THEN gen_for(steps, order, 1, yielded)
    ELSE [status |-> "done", yielded |-> yielded]

\* next() on the generator g of iter_steps(list): the first one runs the
\* function from its start, a later one resumes it after its yield
gen_next(g, list) ==
    IF g.status = "created"
    THEN IF list = <<>> THEN [status |-> "done", yielded |-> <<>>]
         ELSE gen_while(list, get_order_indexes(list), <<>>)
    ELSE gen_for(g.steps, g.order, g.pos, g.yielded)

-----------------------------------------------------------------------------
(* differ.py fill_line and blueprint.py Blueprint: the parts they share.     *)
(* zoom = bar_width / total is a float in the code; ceil(size * zoom) is     *)
(* computed here on the exact fraction.  For the sizes, totals and widths    *)
(* within the bounds of this model the float result is the same.             *)

\* ceil(x / y) for y > 0
CeilDiv(x, y) == -((-x) \div y)

\* ceil(size * zoom)
ScaledWidth(size, width, tot) == CeilDiv(size * width, tot)

\* blueprint: [ceil(di.a * zoom), ceil(di.b * zoom)] for each op
prepare_bp(width, tot, d) ==
    [n \in DOMAIN d |-> <<ScaledWidth(d[n].a, width, tot), ScaledWidth(d[n].b, width, tot)>>]

\* adjust_space as it would be if an op could give back all of its columns
prepare_adj_all_columns(blue) ==
    [n \in DOMAIN blue |-> Max(blue[n][1], blue[n][2])]

\* adjust_space: (maxw - 1) if maxw > 1 else 0
prepare_adj(blue) ==
    [n \in DOMAIN blue |->
        LET maxw == Max(blue[n][1], blue[n][2])
        IN IF maxw > 1 THEN maxw - 1 ELSE 0]

\* real_width: sum(max(x1, x2) for x1, x2 in blueprint)
RealWidth(blue) == SumSeq([n \in DOMAIN blue |-> Max(blue[n][1], blue[n][2])])

\* shrink(index) as it would be without its "if w1:" and "if w2:" guards
shrink_unguarded(blue, index) ==
    [blue EXCEPT ![index + 1] = <<@[1] - 1, @[2] - 1>>]

\* shrink(index): each side one column narrower unless it is 0
shrink(blue, index) ==
    [blue EXCEPT ![index + 1] = <<IF @[1] /= 0 THEN @[1] - 1 ELSE @[1],
                                  IF @[2] /= 0 THEN @[2] - 1 ELSE @[2]>>]

\* for index in <indexes>: shrink(index)
RECURSIVE shrink_all(_, _)
shrink_all(blue, indexes) ==
    IF indexes = <<>> THEN blue
    ELSE shrink_all(shrink(blue, Head(indexes)), Tail(indexes))

\* the blueprint as _adjust / adjust_blueprint leaves it, before the ellipsis:
\* untouched when the width is exact, else shrunk along the first
\* shrink_target steps of iter_steps(adjust_space)
adjusted(blue, width) ==
    LET real_width == RealWidth(blue)
    IN IF real_width = width THEN blue
       ELSE shrink_all(blue, Take(iter_steps(prepare_adj(blue)), real_width - width))

\* the indexes that "islice(iter_steps(adjust_space), shrink_target)" gives
\* to _adjust / adjust_blueprint; none when the width is exact
taken_steps(blue, width) ==
    IF RealWidth(blue) = width THEN <<>>
    ELSE Take(iter_steps(prepare_adj(blue)), RealWidth(blue) - width)

\* "shrink_target > sum(adjust_space)", reached only when the width is not
\* exact
NeedsEllipsis(blue, width) ==
    LET real_width == RealWidth(blue)
    IN /\ real_width /= width
       /\ real_width - width > SumSeq(prepare_adj(blue))

\* half = (width - len("...")) / 2; left = ceil(half); right = int(half),
\* which truncates toward zero
EllipsisLen == 3

EllipsisLeft(width) == CeilDiv(width - EllipsisLen, 2)

EllipsisRight(width) ==
    IF width >= EllipsisLen THEN (width - EllipsisLen) \div 2
    ELSE -((EllipsisLen - width) \div 2)

\* the 0-based indexes of l[start:stop] for a list of n items; a negative
\* bound counts from the end
PySlice(n, start, stop) ==
    LET lo == IF start < 0 THEN Max(start + n, 0) ELSE Min(start, n)
        hi == IF stop < 0 THEN Max(stop + n, 0) ELSE Min(stop, n)
    IN {i \in 0..(n - 1) : lo <= i /\ i < hi}

\* TYPE_SYMBLES: the characters of an op on line 1 and on line 2
TypeSymbols(type) ==
    CASE type = "delete" -> <<"-", " ">>
      [] type = "insert" -> <<" ", "+">>
      [] type = "replace" -> <<"-", "+">>
      [] type = "equal" -> <<"=", "=">>

\* A piece of a line is <<character, count>>: the character, count times.
\* The columns a line takes:
Columns(line) == SumSeq([n \in DOMAIN line |-> line[n][2]])

EllipsisToken == <<".", EllipsisLen>>

-----------------------------------------------------------------------------
(* differ.py: fill_line *)

\* the ellipsis() of fill_line: blueprint[left:-right] set to [-1, -1]; with
\* right = 0 the slice blueprint[left:-0] is blueprint[left:0]
fill_line_ellipsis(blue, width) ==
    LET marked == PySlice(Len(blue), EllipsisLeft(width), -EllipsisRight(width))
    IN [n \in DOMAIN blue |-> IF (n - 1) \in marked THEN <<-1, -1>> ELSE blue[n]]

\* adjust_blueprint()
adjust_blueprint(blue, width) ==
    IF NeedsEllipsis(blue, width) THEN fill_line_ellipsis(adjusted(blue, width), width)
    ELSE adjusted(blue, width)

\* char_bar and padding_bar for one side of one op
SidePieces(char, width, max_width) ==
    (IF width /= 0 THEN <<<<char, width>>>> ELSE <<>>)
    \o (IF max_width - width /= 0 THEN <<<<" ", max_width - width>>>> ELSE <<>>)

\* The loop that builds line1 and line2, from op n on.  acc is <<line1,
\* line2>>; line1[-1] of an empty line1 raises IndexError.
RECURSIVE build_lines(_, _, _, _)
build_lines(d, blue, n, acc) ==
    IF n > Len(d) \/ n > Len(blue) THEN [status |-> "ok", line1 |-> acc[1], line2 |-> acc[2]]
    ELSE IF blue[n][1] < 0 /\ blue[n][2] < 0
    THEN IF acc[1] = <<>> THEN [status |-> "IndexError"]
         ELSE IF acc[1][Len(acc[1])] /= EllipsisToken
         THEN build_lines(d, blue, n + 1,
                          <<Append(acc[1], EllipsisToken), Append(acc[2], EllipsisToken)>>)
         ELSE build_lines(d, blue, n + 1, acc)
    ELSE LET width == Max(blue[n][1], blue[n][2])
         IN build_lines(d, blue, n + 1,
                <<acc[1] \o SidePieces(TypeSymbols(d[n].type)[1], blue[n][1], width),
                  acc[2] \o SidePieces(TypeSymbols(d[n].type)[2], blue[n][2], width)>>)

\* fill_line(bar_width, total, dire): the two lines, with the local blueprint
\* they were built from; or the exception it ends with: ZeroDivisionError of
\* bar_width / total, ValueError of islice with a negative count
fill_line(width, tot, d) ==
    IF tot = 0 THEN [status |-> "ZeroDivisionError"]
    ELSE LET blue == prepare_bp(width, tot, d)
         IN IF RealWidth(blue) < width THEN [status |-> "ValueError"]
            ELSE LET final == adjust_blueprint(blue, width)
                     built == build_lines(d, final, 1, <<<<>>, <<>>>>)
                 IN IF built.status /= "ok" THEN built
                    ELSE [status |-> "ok", line1 |-> built.line1, line2 |-> built.line2,
                          blueprint |-> final]

-----------------------------------------------------------------------------
(* blueprint.py: BPItem and Blueprint *)

\* Blueprint._ellipsis: (left, len(self.blueprint) - right)
blueprint_ellipsis(blue, width) ==
    <<EllipsisLeft(width), Len(blue) - EllipsisRight(width)>>

\* BPItem.__init__
BPItem(di, width1, width2, is_ellipsis, ignore) ==
    LET width == Max(width1, width2)
    IN [dire |-> di, ellipsis |-> is_ellipsis, ignore |-> ignore,
        width1 |-> width1, width2 |-> width2,
        padding1 |-> IF width > width1 THEN width - width1 ELSE 0,
        padding2 |-> IF width > width2 THEN width - width2 ELSE 0,
        width |-> IF ~is_ellipsis THEN width ELSE 0]

\* Blueprint._final_bp: item i (0-based) is part of the ellipsis when
\* ellipsis[0] <= i < ellipsis[1], and ignore is i == ellipsis[0]
final_bp(d, blue, ell) ==
    [n \in 1..Min(Len(d), Len(blue)) |->
        BPItem(d[n], blue[n][1], blue[n][2],
               ell[1] <= n - 1 /\ n - 1 < ell[2],
               n - 1 = ell[1])]

\* Blueprint.__init__: _prepare_bp, _prepare_adj, _adjust, _final_bp
Blueprint(width, tot, d) ==
    IF tot = 0 THEN [status |-> "ZeroDivisionError"]
    ELSE LET blue == prepare_bp(width, tot, d)
         IN IF RealWidth(blue) < width THEN [status |-> "ValueError"]
            ELSE LET ell == IF NeedsEllipsis(blue, width)
                            THEN blueprint_ellipsis(blue, width) ELSE <<-1, -1>>
                     final == adjusted(blue, width)
                 IN [status |-> "ok",
                     blueprint |-> final,
                     adjust_space |-> stairs_after_steps(prepare_adj(blue),
                                                         taken_steps(blue, width)),
                     ellipsis |-> ell,
                     items |-> final_bp(d, final, ell)]

\* BPItem.symbols for one side (1 or 2): "..." unless ignore, else the op's
\* characters and its padding; pieces of no column are left out
ItemSymbols(item, side) ==
    IF item.ellipsis
    THEN (IF ~item.ignore THEN <<EllipsisToken>> ELSE <<>>)
    ELSE LET w == IF side = 1 THEN item.width1 ELSE item.width2
             pad == IF side = 1 THEN item.padding1 ELSE item.padding2
         IN (IF w > 0 THEN <<<<TypeSymbols(item.dire.type)[side], w>>>> ELSE <<>>)
            \o (IF pad > 0 THEN <<<<" ", pad>>>> ELSE <<>>)

\* Blueprint.symbols for one side: the pieces of all items, joined
RECURSIVE symbols_from(_, _, _)
symbols_from(its, n, side) ==
    IF n > Len(its) THEN <<>>
    ELSE ItemSymbols(its[n], side) \o symbols_from(its, n + 1, side)

symbols(its, side) == symbols_from(its, 1, side)

-----------------------------------------------------------------------------
(* The idle values of the variables a specification does not use *)

IdleAlign ==
    /\ fileA = <<>>
    /\ fileB = <<>>
    /\ cr12 = None
    /\ cr21 = None

IdleCatalog ==
    /\ sums = <<<<>>, <<>>>>
    /\ hashes = <<<<>>, <<>>>>
    /\ files = <<<<>>, <<>>>>
    /\ c2f = <<None, None>>
    /\ pairs = None
    /\ dup_files = None
    /\ dups = None
    /\ lookup = None

IdleRender ==
    /\ bar_width = 0
    /\ dire = <<>>
    /\ total = 0
    /\ bp = None
    /\ lines = None

IdleSteps ==
    /\ stairs = <<>>
    /\ gen = None

-----------------------------------------------------------------------------
(* SpecAlign: two files, compared by Differ._compare in both orders *)

InitAlign ==
    /\ fileA \in ChunkLists
    /\ fileB \in ChunkLists
    /\ cr12 = None
    /\ cr21 = None
    /\ IdleCatalog
    /\ IdleRender
    /\ IdleSteps

\* Differ._compare(file1, file2) with file1 = A, file2 = B
Compare12 ==
    /\ cr12 = None
    /\ cr12' = Differ_compare(fileA, fileB)
    /\ UNCHANGED <<fileA, fileB, cr21, catalogVars, renderVars, stepVars>>

\* Differ._compare(file1, file2) with file1 = B, file2 = A
Compare21 ==
    /\ cr21 = None
    /\ cr21' = Differ_compare(fileB, fileA)
    /\ UNCHANGED <<fileA, fileB, cr12, catalogVars, renderVars, stepVars>>

NextAlign == Compare12 \/ Compare21

SpecAlign == InitAlign /\ [][NextAlign]_vars

-----------------------------------------------------------------------------
(* SpecRender: one alignment and one width, drawn by differ.fill_line and by *)
(* Blueprint.  The total is the one Differ._compare stores for the           *)
(* alignment, which CompareResult.get_parts passes on.                       *)

InitRender ==
    /\ dire \in Dires
    /\ bar_width \in 1..MaxWidth
    /\ total = DireTotal(dire)
    /\ bp = None
    /\ lines = None
    /\ IdleAlign
    /\ IdleCatalog
    /\ IdleSteps

\* CompareResult.get_parts(bar_width): fill_line(bar_width, total, dire)
FillLine ==
    /\ lines = None
    /\ lines' = fill_line(bar_width, total, dire)
    /\ UNCHANGED <<bar_width, dire, total, bp, alignVars, catalogVars, stepVars>>

\* Blueprint(bar_width, total, dire)
NewBlueprint ==
    /\ bp = None
    /\ bp' = Blueprint(bar_width, total, dire)
    /\ UNCHANGED <<bar_width, dire, total, lines, alignVars, catalogVars, stepVars>>

NextRender == FillLine \/ NewBlueprint

SpecRender == InitRender /\ [][NextRender]_vars

-----------------------------------------------------------------------------
(* SpecSteps: a list of budgets and the generator iter_steps makes for it,   *)
(* advanced by next() until it is exhausted                                  *)

InitSteps ==
    /\ stairs \in StairLists
    /\ gen = gen_created
    /\ IdleAlign
    /\ IdleCatalog
    /\ IdleRender

\* next(gen): the generator runs to its next yield or to its end; it writes
\* to steps, its copy(stairs), and never to stairs
GenNext ==
    /\ gen /= None
    /\ gen.status /= "done"
    /\ gen' = gen_next(gen, stairs)
    /\ UNCHANGED <<stairs, alignVars, catalogVars, renderVars>>

NextSteps == GenNext

SpecSteps == InitSteps /\ [][NextSteps]_vars

-----------------------------------------------------------------------------
(* Claims on the alignment (SpecAlign) *)

\* the ratios of two results, compared as fractions
SameRatio(r1, r2) == r1.num * r2.den = r2.num * r1.den

\* C3: for chunk lists A and B, not both of total size 0, _compare(A, B) and
\* _compare(B, A) give the same ratio and the same total.
C3_RatioSymmetric ==
    (cr12.status = "ok" /\ cr21.status = "ok") =>
        /\ SameRatio(cr12.ratio, cr21.ratio)
        /\ cr12.total = cr21.total

\* the length of a longest common subsequence of two lists
RECURSIVE LCSLen(_, _)
LCSLen(a, b) ==
    IF a = <<>> \/ b = <<>> THEN 0
    ELSE IF Head(a) = Head(b) THEN 1 + LCSLen(Tail(a), Tail(b))
    ELSE Max(LCSLen(Tail(a), b), LCSLen(a, Tail(b)))

\* the length of a longest run of consecutive items common to two lists
LongestCommonRun(a, b) ==
    LET runs == {RunLen(a, b, i, j, 0, 0) : i \in 0..(Len(a) - 1), j \in 0..(Len(b) - 1)}
    IN IF runs = {} THEN 0 ELSE CHOOSE k \in runs : \A m \in runs : m <= k

\* the opcodes behind cr12.dire, and the number of chunks its Equal ops cover
Opcodes12 == get_opcodes(FileHashes(fileA), FileHashes(fileB))

EqualChunks(ops) ==
    SumSeq([n \in DOMAIN ops |->
               IF ops[n][1] = "equal" THEN ops[n][3] - ops[n][2] ELSE 0])

SumOfMax(d) == SumSeq([n \in DOMAIN d |-> Max(d[n].a, d[n].b)])

\* C5: the total _compare stores is the sum over the ops of max(sizeA, sizeB)
\* and is at least max(total size of A, total size of B).
C5_TotalIsSumOfMax ==
    cr12.status = "ok" =>
        /\ cr12.total = SumOfMax(cr12.dire)
        /\ cr12.total >= Max(FileSize(fileA), FileSize(fileB))

\* C6: comparing two files that both have total size 0 does not fail and
\* gives ratio 1.0.
C6_ZeroSizeRatioOne ==
    (cr12 /= None /\ FileSize(fileA) = 0 /\ FileSize(fileB) = 0) =>
        /\ cr12.status = "ok"
        /\ cr12.ratio.num = cr12.ratio.den

\* C13: for chunk lists A and B that are not both of total size 0 (equal
\* hashes carry equal sizes), the ratio of _compare is within [0, 1].
C13_RatioInUnitInterval ==
    /\ cr12.status = "ok" =>
          /\ cr12.ratio.den > 0
          /\ 0 <= cr12.ratio.num
          /\ cr12.ratio.num <= cr12.ratio.den
    /\ cr21.status = "ok" =>
          /\ cr21.ratio.den > 0
          /\ 0 <= cr21.ratio.num
          /\ cr21.ratio.num <= cr21.ratio.den

\* C13 witness: both orders compared, a ratio strictly between 0 and 1, for
\* lists with a Replace op that is wider on its B side
C13_Witness ==
    /\ cr12.status = "ok" /\ cr21.status = "ok"
    /\ 0 < cr12.ratio.num /\ cr12.ratio.num < cr12.ratio.den
    /\ \E n \in DOMAIN cr12.dire :
          cr12.dire[n].type = "replace" /\ cr12.dire[n].b > cr12.dire[n].a

\* a chunk list without its chunks of size 0
NonZeroChunks(chunks) == SelectSeq(chunks, LAMBDA c : c[2] /= 0)

\* C14 as stated: for chunk lists of non-zero total size the ratio is 1.0 if
\* and only if the two lists are identical.
C14_RatioOneIffIdentical ==
    (cr12.status = "ok" /\ FileSize(fileA) + FileSize(fileB) /= 0) =>
        (cr12.ratio.num = cr12.ratio.den <=> fileA = fileB)

\* C14 amended: identical lists have ratio 1.0, and lists with ratio 1.0 are
\* identical once their chunks of size 0 are left out (so identical, when all
\* sizes are positive).
C14_RatioOneUpToEmptyChunks ==
    (cr12.status = "ok" /\ FileSize(fileA) + FileSize(fileB) /= 0) =>
        /\ fileA = fileB => cr12.ratio.num = cr12.ratio.den
        /\ cr12.ratio.num = cr12.ratio.den => NonZeroChunks(fileA) = NonZeroChunks(fileB)

\* C14 witness: two different lists with ratio 1.0
C14_Witness ==
    /\ cr12.status = "ok"
    /\ cr12.ratio.num = cr12.ratio.den
    /\ fileA /= fileB
    /\ FileSize(fileA) > 0

\* C15: a chunk list of non-zero total size compared with itself has ratio
\* 1.0 and an alignment whose ops are all Equal.
C15_SelfCompare ==
    (cr12 /= None /\ fileA = fileB /\ FileSize(fileA) /= 0) =>
        /\ cr12.status = "ok"
        /\ cr12.ratio.num = cr12.ratio.den
        /\ \A n \in DOMAIN cr12.dire : cr12.dire[n].type = "equal"

\* C15 witness: a list with a repeated chunk and a chunk of size 0, compared
\* with itself
C15_Witness ==
    /\ cr12.status = "ok"
    /\ fileA = fileB
    /\ Len(fileA) = MaxLen
    /\ Cardinality(Range(fileA)) < Len(fileA)
    /\ \E n \in DOMAIN fileA : fileA[n][2] = 0

\* the alignment Dire.get gives for the chunk lists x and y
DireOf(x, y) == Dire_get(FileHashes(x), FileHashes(y), FileSizes(x), FileSizes(y))

\* the ops of d account for all bytes of x on side A and of y on side B, an
\* Insert takes nothing from A, a Delete nothing from B, and an Equal takes
\* the same from both
CoversBoth(d, x, y) ==
    /\ SumSeq([n \in DOMAIN d |-> d[n].a]) = FileSize(x)
    /\ SumSeq([n \in DOMAIN d |-> d[n].b]) = FileSize(y)
    /\ \A n \in DOMAIN d :
          /\ d[n].type = "insert" => d[n].a = 0
          /\ d[n].type = "delete" => d[n].b = 0
          /\ d[n].type = "equal" => d[n].a = d[n].b

\* C22: the ops of the alignment of Dire.get cover both input sequences: the
\* sizeA of the ops sum to the size of A and the sizeB to the size of B,
\* every Insert has sizeA = 0, every Delete has sizeB = 0 and every Equal has
\* sizeA = sizeB (equal hashes carry equal sizes here); _compare keeps that
\* alignment in its result.
C22_OpsCoverBothSequences ==
    /\ cr12 /= None =>
          /\ CoversBoth(DireOf(fileA, fileB), fileA, fileB)
          /\ cr12.status = "ok" => cr12.dire = DireOf(fileA, fileB)
    /\ cr21 /= None =>
          /\ CoversBoth(DireOf(fileB, fileA), fileB, fileA)
          /\ cr21.status = "ok" => cr21.dire = DireOf(fileB, fileA)

\* C22 witness: both orders compared, the alignment of A and B holding an
\* Equal, an Insert and a Delete or Replace of non-zero size
C22_Witness ==
    /\ cr12 /= None /\ cr21 /= None
    /\ cr12.status = "ok"
    /\ \E n \in DOMAIN cr12.dire : cr12.dire[n].type = "equal" /\ cr12.dire[n].a > 0
    /\ \E n \in DOMAIN cr12.dire : cr12.dire[n].type = "insert" /\ cr12.dire[n].b > 0
    /\ \E n \in DOMAIN cr12.dire :
          cr12.dire[n].type \in {"delete", "replace"} /\ cr12.dire[n].a > 0

-----------------------------------------------------------------------------
(* SpecFixture: the two chunk lists of the example of Differ.compare, and    *)
(* every pair of lists made by leaving chunks out of them, compared by       *)
(* Differ._compare.  The hashes of this example have their own sizes.        *)

FixtureA == <<<<"a", 10>>, <<"b", 10>>, <<"c", 5>>, <<"d", 5>>, <<"e", 5>>>>

FixtureB == <<<<"b", 10>>, <<"f", 5>>, <<"c", 5>>, <<"g", 5>>, <<"d", 5>>, <<"h", 5>>>>

\* the lists made of the items of l whose positions are in keep
Keep(l, keep) == SelectSeq([n \in DOMAIN l |-> IF n \in keep THEN <<l[n]>> ELSE <<>>],
                           LAMBDA x : x /= <<>>)

SubLists(l) == {[n \in DOMAIN Keep(l, keep) |-> Keep(l, keep)[n][1]] : keep \in SUBSET DOMAIN l}

InitFixture ==
    /\ fileA \in SubLists(FixtureA)
    /\ fileB \in SubLists(FixtureB)
    /\ cr12 = None
    /\ cr21 = None
    /\ IdleCatalog
    /\ IdleRender
    /\ IdleSteps

SpecFixture == InitFixture /\ [][NextAlign]_vars

\* the hashes the Equal ops of an alignment of a and b cover, in order
RECURSIVE EqualHashes(_, _)
EqualHashes(a, ops) ==
    IF ops = <<>> THEN <<>>
    ELSE (IF Head(ops)[1] = "equal" THEN Slice(a, Head(ops)[2], Head(ops)[3]) ELSE <<>>)
         \o EqualHashes(a, Tail(ops))

\* C16: for A = [(a,10),(b,10),(c,5),(d,5),(e,5)] and B = [(b,10),(f,5),(c,5),
\* (g,5),(d,5),(h,5)] the alignment matches exactly the chunks b, c and d,
\* 20 bytes, and the ratio is 2*20/(35+35) = 4/7.
C16_FixtureRatio ==
    (fileA = FixtureA /\ fileB = FixtureB /\ cr12 /= None) =>
        /\ cr12.status = "ok"
        /\ EqualHashes(FileHashes(fileA), Opcodes12) = <<"b", "c", "d">>
        /\ DireMatches(cr12.dire) = 20
        /\ cr12.ratio = [num |-> 2 * 20, den |-> 35 + 35]
        /\ cr12.ratio.num * 7 = cr12.ratio.den * 4

\* C16 witness: the two lists of the example, compared
C16_Witness ==
    /\ fileA = FixtureA
    /\ fileB = FixtureB
    /\ cr12.status = "ok"

-----------------------------------------------------------------------------
(* SpecRerender: one CompareResult, made by Differ._compare from two of the  *)
(* lists of SpecFixture, drawn again and again at any widths                 *)

InitRerender ==
    /\ fileA \in SubLists(FixtureA)
    /\ fileB \in SubLists(FixtureB)
    /\ cr12 = Differ_compare(fileA, fileB)
    /\ cr21 = None
    /\ IdleCatalog
    /\ IdleRender
    /\ IdleSteps

\* One render of the CompareResult at width w: get_parts(w), which is
\* fill_line(w, self.total, self.dire), and Blueprint(w, total, dire).  Both
\* read the alignment and write to lists of their own.
Render(w) ==
    /\ cr12.status = "ok"
    /\ bar_width' = w
    /\ dire' = cr12.dire
    /\ total' = cr12.total
    /\ lines' = fill_line(w, cr12.total, cr12.dire)
    /\ bp' = Blueprint(w, cr12.total, cr12.dire)
    /\ UNCHANGED <<alignVars, catalogVars, stepVars>>

NextRerender == \E w \in 1..MaxWidth : Render(w)

SpecRerender == InitRerender /\ [][NextRerender]_vars

-----------------------------------------------------------------------------
(* SpecCatalog: two chunksums files are parsed line by line into two         *)
(* catalogs, then the indexes and the candidate pairs are read.              *)

InitCatalog ==
    /\ sums = <<<<>>, <<>>>>
    /\ hashes = <<<<>>, <<>>>>
    /\ files = <<<<>>, <<>>>>
    /\ c2f = <<None, None>>
    /\ pairs = None
    /\ dup_files = None
    /\ dups = None
    /\ lookup = None
    /\ IdleAlign
    /\ IdleRender
    /\ IdleSteps

\* One pass of the loop of Chunksums.parse for catalog k: the line's File is
\* stored under its hash, its path under files.  parse returns before anything
\* reads the catalog.
ParseLine(k, f) ==
    /\ Len(sums[k]) < MaxFiles
    /\ c2f[k] = None
    /\ pairs = None
    /\ dup_files = None
    /\ sums' = [sums EXCEPT ![k] = Append(@, f)]
    /\ hashes' = [hashes EXCEPT ![k] = DictSet(@, f.hash, f)]
    /\ files' = [files EXCEPT ![k] = DictSet(@, f.path, f.hash)]
    /\ dups = None
    /\ UNCHANGED <<c2f, pairs, dup_files, dups, lookup, alignVars, renderVars, stepVars>>

\* the value of the property Chunksums.chunk2file_id of catalog k: the
\* memoized dict, built on the first read
ReadChunk2FileId(k) ==
    IF c2f[k] /= None THEN c2f[k]
    ELSE [status |-> "ok", map |-> chunk2file_id(hashes[k])]

\* A first read of Differ._pairs: reads both indexes, which memoize, and
\* memoizes the list.
Pairs ==
    /\ pairs = None
    /\ c2f' = <<ReadChunk2FileId(1), ReadChunk2FileId(2)>>
    /\ pairs' = [status |-> "ok",
                 list |-> Differ_pairs(ReadChunk2FileId(1).map, ReadChunk2FileId(2).map)]
    /\ UNCHANGED <<sums, hashes, files, dup_files, dups, lookup, alignVars, renderVars, stepVars>>

\* chunkdup.find_dup_files on the CheckSumIndex of each parsed list
FindDupFiles ==
    /\ dup_files = None
    /\ dup_files' = find_dup_files(CheckSumIndex(sums[1]), CheckSumIndex(sums[2]))
    /\ UNCHANGED <<sums, hashes, files, c2f, pairs, dups, lookup, alignVars, renderVars, stepVars>>

NextCatalog ==
    \/ \E k \in {1, 2}, f \in Lines : ParseLine(k, f)
    \/ Pairs
    \/ FindDupFiles

SpecCatalog == InitCatalog /\ [][NextCatalog]_vars

-----------------------------------------------------------------------------
(* chunkdiff.py: get_info *)

\* get_info(chunksums_file, path): the index of the parsed file, then the
\* chunks and the sizes of the file of that path; FileNotExists when
\* index._files.get(path) is None
get_info(lines_k, path) ==
    LET index == CheckSumIndex(lines_k)
    IN IF path \notin DictKeys(index.files) THEN [status |-> "FileNotExists"]
       ELSE LET chunks == DictGet(index.file_id2chunk, DictGet(index.files, path).id)
            IN [status |-> "ok", chunks |-> chunks,
                sizes |-> [n \in DOMAIN chunks |-> DictGet(index.chunk2size, chunks[n])]]

-----------------------------------------------------------------------------
(* SpecDiffer: a Differ made of two catalogs, each parsed from a chunksums   *)
(* file by Chunksums.parse; then _pairs and dups are read.                   *)

\* the chunksums files: lists of up to MaxFiles lines
Texts == SeqsUpTo(Lines, MaxFiles)

InitDiffer ==
    /\ sums \in Texts \X Texts
    /\ hashes = <<parse_hashes(<<>>, sums[1]), parse_hashes(<<>>, sums[2])>>
    /\ files = <<parse_files(<<>>, sums[1]), parse_files(<<>>, sums[2])>>
    /\ c2f = <<None, None>>
    /\ pairs = None
    /\ dup_files = None
    /\ dups = None
    /\ lookup = None
    /\ IdleAlign
    /\ IdleRender
    /\ IdleSteps

\* the value of the property Differ._pairs: the memoized list, built on the
\* first read
ReadPairs ==
    IF pairs /= None THEN pairs
    ELSE [status |-> "ok",
          list |-> Differ_pairs(ReadChunk2FileId(1).map, ReadChunk2FileId(2).map)]

\* A first read of Differ.dups: reads _pairs, which memoizes, and compares the
\* pairs.  When _compare raises, the exception is what the read gives (kept
\* here in dups; the code leaves __dups None).
Dups ==
    /\ dups = None
    /\ c2f' = <<ReadChunk2FileId(1), ReadChunk2FileId(2)>>
    /\ pairs' = ReadPairs
    /\ dups' = Differ_dups(ReadPairs.list, hashes[1], hashes[2])
    /\ UNCHANGED <<sums, hashes, files, dup_files, lookup, alignVars, renderVars, stepVars>>

NextDiffer == Pairs \/ Dups

SpecDiffer == InitDiffer /\ [][NextDiffer]_vars

-----------------------------------------------------------------------------
(* SpecTrees: a Differ made of the catalogs of two directory trees that can  *)
(* hold files under the same relative paths, with contents of the same size  *)
(* or the same content; then _pairs and dups are read.                       *)

\* the chunksums files of the two trees: files 1 and 2 in the first, files 2
\* and 4 in the second
TreeTexts(ids) == SeqsUpTo({File(h, p) : h \in ids, p \in Paths}, MaxFiles)

InitTrees ==
    /\ sums \in TreeTexts({1, 2}) \X TreeTexts({2, 4})
    /\ hashes = <<parse_hashes(<<>>, sums[1]), parse_hashes(<<>>, sums[2])>>
    /\ files = <<parse_files(<<>>, sums[1]), parse_files(<<>>, sums[2])>>
    /\ c2f = <<None, None>>
    /\ pairs = None
    /\ dup_files = None
    /\ dups = None
    /\ lookup = None
    /\ IdleAlign
    /\ IdleRender
    /\ IdleSteps

SpecTrees == InitTrees /\ [][NextDiffer]_vars

-----------------------------------------------------------------------------
(* SpecLookup: one catalog parsed from a chunksums file (the other one is    *)
(* empty), and paths looked up in them by Chunksums.get_file and by          *)
(* chunkdiff.get_info.                                                       *)

\* the paths asked for: those a line can have, and one that no line has
AskedPaths == Paths \cup {"r"}

InitLookup ==
    /\ sums \in Texts \X {<<>>}
    /\ hashes = <<parse_hashes(<<>>, sums[1]), parse_hashes(<<>>, sums[2])>>
    /\ files = <<parse_files(<<>>, sums[1]), parse_files(<<>>, sums[2])>>
    /\ c2f = <<None, None>>
    /\ pairs = None
    /\ dup_files = None
    /\ dups = None
    /\ lookup = None
    /\ IdleAlign
    /\ IdleRender
    /\ IdleSteps

\* Chunksums.get_file(path) on catalog k
GetFile(k, path) ==
    /\ lookup' = [by |-> "get_file", catalog |-> k, path |-> path,
                  result |-> get_file(files[k], hashes[k], path)]
    /\ UNCHANGED <<sums, hashes, files, c2f, pairs, dup_files, dups, alignVars, renderVars, stepVars>>

\* chunkdiff.get_info(chunksums_file, path) on the file of catalog k
GetInfo(k, path) ==
    /\ lookup' = [by |-> "get_info", catalog |-> k, path |-> path,
                  result |-> get_info(sums[k], path)]
    /\ UNCHANGED <<sums, hashes, files, c2f, pairs, dup_files, dups, alignVars, renderVars, stepVars>>

NextLookup ==
    \/ \E k \in {1, 2}, path \in AskedPaths : GetFile(k, path)
    \/ \E k \in {1, 2}, path \in AskedPaths : GetInfo(k, path)

SpecLookup == InitLookup /\ [][NextLookup]_vars

-----------------------------------------------------------------------------
(* SpecIndex: one catalog (the other one stays empty) that takes descriptors *)
(* and has its chunk2file_id read, in any order.  hashes and files are       *)
(* public fields of a Chunksums; a descriptor is added to them by the two    *)
(* assignments of the loop of Chunksums.parse.                               *)

\* cs.hashes[f.hash] = f; cs.files[f.path] = f.hash on catalog k, whether or
\* not its index was read before
AddDescriptor(k, f) ==
    /\ Len(sums[k]) < MaxFiles
    /\ sums' = [sums EXCEPT ![k] = Append(@, f)]
    /\ hashes' = [hashes EXCEPT ![k] = DictSet(@, f.hash, f)]
    /\ files' = [files EXCEPT ![k] = DictSet(@, f.path, f.hash)]
    /\ UNCHANGED <<c2f, pairs, dup_files, dups, lookup, alignVars, renderVars, stepVars>>

\* A read of the property Chunksums.chunk2file_id of catalog k: the dict is
\* built and memoized on the first read, and returned as it is on a later
\* one.  lookup keeps what the read returned and the hashes dict of the
\* catalog as it was at that read.
ReadIndex(k) ==
    /\ c2f' = [c2f EXCEPT ![k] = ReadChunk2FileId(k)]
    /\ lookup' = [by |-> "chunk2file_id", catalog |-> k, hashes |-> hashes[k],
                  result |-> ReadChunk2FileId(k)]
    /\ UNCHANGED <<sums, hashes, files, pairs, dup_files, dups, alignVars, renderVars, stepVars>>

NextIndex ==
    \/ \E f \in Lines : AddDescriptor(1, f)
    \/ ReadIndex(1)

SpecIndex == InitCatalog /\ [][NextIndex]_vars

-----------------------------------------------------------------------------
(* Claims on the catalog (SpecCatalog) *)

\* two chunk lists have a chunk in common
ShareChunk(chunks1, chunks2) == Range(chunks1) \cap Range(chunks2) /= {}

\* no item occurs twice in a list
NoRepeats(l) == \A m, n \in DOMAIN l : m /= n => l[m] /= l[n]

\* C1: for every line parsed into catalog 1 and every line parsed into
\* catalog 2 whose chunk lists share a chunk, Differ._pairs holds a pair that
\* identifies the file with the one path and the file with the other path,
\* also when several paths of one catalog carry the same overall hash.
C1_PairsComplete ==
    pairs.status = "ok" =>
        \A i \in DOMAIN sums[1], j \in DOMAIN sums[2] :
            ShareChunk(sums[1][i].chunks, sums[2][j].chunks) =>
                \E n \in DOMAIN pairs.list :
                    /\ DictGet(hashes[1], pairs.list[n][1]).path = sums[1][i].path
                    /\ DictGet(hashes[2], pairs.list[n][2]).path = sums[2][j].path

\* C2: every pair of Differ._pairs names a file of catalog 1 and a file of
\* catalog 2 that have a chunk in common, and no pair occurs twice; the same
\* for the file id pairs of find_dup_files, which returns one tuple for each
\* pair, carrying the paths of its two files.
C2_PairsSound ==
    /\ pairs.status = "ok" =>
          /\ \A n \in DOMAIN pairs.list :
                /\ pairs.list[n][1] \in DictKeys(hashes[1])
                /\ pairs.list[n][2] \in DictKeys(hashes[2])
                /\ ShareChunk(DictGet(hashes[1], pairs.list[n][1]).chunks,
                              DictGet(hashes[2], pairs.list[n][2]).chunks)
          /\ NoRepeats(pairs.list)
    /\ dup_files.status = "ok" =>
          /\ \A n \in DOMAIN dup_files.file_id_pairs :
                LET f1 == dup_files.file_id_pairs[n][1]
                    f2 == dup_files.file_id_pairs[n][2]
                IN /\ f1 + 1 \in DOMAIN sums[1]
                   /\ f2 + 1 \in DOMAIN sums[2]
                   /\ ShareChunk(sums[1][f1 + 1].chunks, sums[2][f2 + 1].chunks)
                   /\ dup_files.dups[n].path1 = sums[1][f1 + 1].path
                   /\ dup_files.dups[n].path2 = sums[2][f2 + 1].path
          /\ NoRepeats(dup_files.file_id_pairs)
          /\ Len(dup_files.dups) = Len(dup_files.file_id_pairs)

\* C2 witness: Differ._pairs and find_dup_files have returned pairs where
\* catalog 1 has a file with a repeated chunk that shares two chunks with a
\* file of catalog 2, and a file that shares no chunk with a file of catalog 2
C2_Witness ==
    /\ pairs.status = "ok"
    /\ Len(pairs.list) >= 1
    /\ \E i \in DOMAIN sums[1], j \in DOMAIN sums[2] :
           /\ Cardinality(Range(sums[1][i].chunks) \cap Range(sums[2][j].chunks)) >= 2
           /\ Cardinality(Range(sums[1][i].chunks)) < Len(sums[1][i].chunks)
    /\ \E i \in DOMAIN sums[1], j \in DOMAIN sums[2] :
           ~ShareChunk(sums[1][i].chunks, sums[2][j].chunks)
    /\ dup_files.status = "ok"
    /\ Len(dup_files.dups) >= 1

-----------------------------------------------------------------------------
(* Claims on the bar (SpecRender) *)

\* the ceil-scaled widths of the drawn alignment, before any correction
OriginalWidths == prepare_bp(bar_width, total, dire)

\* overshoot: the sum of the per-op max(ceil widths) minus the width
Overshoot == RealWidth(OriginalWidths) - bar_width

\* the sum of the per-op budgets
BudgetSum == SumSeq(prepare_adj(OriginalWidths))

\* how many "..." pieces a line holds
EllipsisCount(line) == Cardinality({n \in DOMAIN line : line[n] = EllipsisToken})

\* sum(i.width for i in Blueprint)
ItemsWidth(its) == SumSeq([n \in DOMAIN its |-> its[n].width])

\* the ops fill_line keeps: those its ellipsis() did not mark
KeptByFillLine == {n \in DOMAIN lines.blueprint : lines.blueprint[n] /= <<-1, -1>>}

\* the ops Blueprint keeps: the items that are no part of the ellipsis
KeptByBlueprint == {n \in DOMAIN bp.items : ~bp.items[n].ellipsis}

\* a side of width w after the op's whole budget was taken from it
FullyShrunk(w, n) ==
    Max(w - prepare_adj(OriginalWidths)[n], 0)

\* C7: with total > 0 and width >= 4, when the overshoot does not exceed the
\* sum of the budgets, the final plan of fill_line and of Blueprint has exactly
\* width columns (sum over the ops of max(widthA, widthB)); and the sum before
\* the correction is never below width.
C7_PlanFillsWidth ==
    (total > 0 /\ bar_width >= 4) =>
        /\ Overshoot >= 0
        /\ (Overshoot <= BudgetSum) =>
            /\ lines /= None =>
                  /\ lines.status = "ok"
                  /\ RealWidth(lines.blueprint) = bar_width
            /\ bp /= None =>
                  /\ bp.status = "ok"
                  /\ bp.ellipsis = <<-1, -1>>
                  /\ RealWidth(bp.blueprint) = bar_width
                  /\ ItemsWidth(bp.items) = bar_width

\* C7 witness: both plans built at a width >= 4 for an alignment whose scaled
\* widths overshoot, within the budgets, with an op that gives back two columns
C7_Witness ==
    /\ total > 0 /\ bar_width >= 4
    /\ Overshoot > 0 /\ Overshoot <= BudgetSum
    /\ lines /= None /\ lines.status = "ok"
    /\ bp /= None /\ bp.status = "ok"
    /\ \E n \in DOMAIN dire :
          Max(OriginalWidths[n][1], OriginalWidths[n][2])
              >= Max(bp.blueprint[n][1], bp.blueprint[n][2]) + 2

\* C8: with total > 0 and width >= 4, when the overshoot exceeds the sum of
\* the budgets, each of the two lines of fill_line holds exactly one "...".
C8_FillLineOneEllipsis ==
    (total > 0 /\ bar_width >= 4 /\ Overshoot > BudgetSum /\ lines /= None) =>
        /\ lines.status = "ok"
        /\ EllipsisCount(lines.line1) = 1
        /\ EllipsisCount(lines.line2) = 1

\* C9: when the ellipsis fallback triggers in Blueprint, symbols() holds
\* exactly one three-column "..." on each line, and each line takes exactly
\* width columns.
C9_BlueprintOneEllipsis ==
    (total > 0 /\ bar_width >= 4 /\ Overshoot > BudgetSum /\ bp /= None) =>
        /\ bp.status = "ok"
        /\ EllipsisCount(symbols(bp.items, 1)) = 1
        /\ EllipsisCount(symbols(bp.items, 2)) = 1
        /\ Columns(symbols(bp.items, 1)) = bar_width
        /\ Columns(symbols(bp.items, 2)) = bar_width

\* C10 as stated: in the ellipsis branch every kept op is drawn at its
\* original ceil-scaled widths.
C10_EdgesAtOriginalWidths ==
    (total > 0 /\ bar_width >= 4 /\ Overshoot > BudgetSum) =>
        /\ (lines /= None /\ lines.status = "ok") =>
              \A n \in KeptByFillLine : lines.blueprint[n] = OriginalWidths[n]
        /\ (bp /= None /\ bp.status = "ok") =>
              \A n \in KeptByBlueprint :
                  /\ bp.items[n].width1 = OriginalWidths[n][1]
                  /\ bp.items[n].width2 = OriginalWidths[n][2]

\* C10 amended: in the ellipsis branch the correction is kept; every kept op
\* is drawn with each side narrowed by the op's whole budget, but not below 0,
\* so that its wider side takes one column.
C10_EdgesFullyShrunk ==
    (total > 0 /\ bar_width >= 4 /\ Overshoot > BudgetSum) =>
        /\ (lines /= None /\ lines.status = "ok") =>
              \A n \in KeptByFillLine :
                  /\ lines.blueprint[n] = <<FullyShrunk(OriginalWidths[n][1], n),
                                            FullyShrunk(OriginalWidths[n][2], n)>>
                  /\ Max(lines.blueprint[n][1], lines.blueprint[n][2]) <= 1
        /\ (bp /= None /\ bp.status = "ok") =>
              \A n \in KeptByBlueprint :
                  /\ bp.items[n].width1 = FullyShrunk(OriginalWidths[n][1], n)
                  /\ bp.items[n].width2 = FullyShrunk(OriginalWidths[n][2], n)
                  /\ bp.items[n].width <= 1

\* C10 witness: the ellipsis branch taken by both, fill_line having drawn its
\* "...", with a kept op of unequal sides that was wider than one column
C10_Witness ==
    /\ total > 0 /\ bar_width >= 4 /\ Overshoot > BudgetSum
    /\ lines /= None /\ lines.status = "ok" /\ EllipsisCount(lines.line1) = 1
    /\ bp /= None /\ bp.status = "ok"
    /\ \E n \in KeptByFillLine \cap KeptByBlueprint :
          /\ OriginalWidths[n][1] >= 1
          /\ OriginalWidths[n][2] > OriginalWidths[n][1] + 1
          /\ lines.blueprint[n] = <<0, 1>>

\* the byte extent of op n of the drawn alignment
Extent(n) == Max(dire[n].a, dire[n].b)

\* C23: when the ellipsis fallback does not trigger (the overshoot is within
\* the sum of the budgets), every op of non-zero byte extent takes at least
\* one column in the final plan of fill_line and of Blueprint.
C23_VisibleOpKeepsAColumn ==
    (total > 0 /\ Overshoot <= BudgetSum) =>
        /\ (lines /= None /\ lines.status = "ok") =>
              \A n \in DOMAIN dire :
                  Extent(n) > 0 =>
                      Max(lines.blueprint[n][1], lines.blueprint[n][2]) >= 1
        /\ (bp /= None /\ bp.status = "ok") =>
              \A n \in DOMAIN dire :
                  Extent(n) > 0 =>
                      /\ Max(bp.blueprint[n][1], bp.blueprint[n][2]) >= 1
                      /\ bp.items[n].width >= 1

\* C23 witness: both plans built without ellipsis after a correction that
\* took the whole budget of every op, one op having given back two columns
C23_Witness ==
    /\ total > 0 /\ Overshoot > 0 /\ Overshoot = BudgetSum
    /\ lines /= None /\ lines.status = "ok"
    /\ bp /= None /\ bp.status = "ok"
    /\ \E n \in DOMAIN dire :
          /\ Max(OriginalWidths[n][1], OriginalWidths[n][2]) >= 3
          /\ Max(lines.blueprint[n][1], lines.blueprint[n][2]) = 1
          /\ bp.items[n].width = 1

\* how many ops have a non-zero ceil-scaled width
NonZeroOps ==
    Cardinality({n \in DOMAIN dire : Max(OriginalWidths[n][1], OriginalWidths[n][2]) > 0})

\* the ops at the 0-based indexes [ceil((width-3)/2), n - floor((width-3)/2))
MiddleOps ==
    {n \in DOMAIN dire :
        /\ 2 * (n - 1) >= bar_width - 3
        /\ n - 1 < Len(dire) - ((bar_width - 3) \div 2)}

\* C26: for total > 0 the ellipsis fallback triggers (overshoot > sum of the
\* budgets) exactly when more ops have a non-zero scaled width than the
\* width has columns; when it triggers at a width >= 3, fill_line and
\* Blueprint elide the ops at the indexes [ceil((width-3)/2),
\* n - floor((width-3)/2)) and keep exactly width - 3 ops.
C26_EllipsisRange ==
    total > 0 =>
        /\ (Overshoot > BudgetSum) <=> (NonZeroOps > bar_width)
        /\ (Overshoot > BudgetSum /\ bar_width >= 3) =>
              /\ (lines /= None /\ lines.status = "ok") =>
                    /\ DOMAIN dire \ KeptByFillLine = MiddleOps
                    /\ Cardinality(KeptByFillLine) = bar_width - 3
              /\ (bp /= None /\ bp.status = "ok") =>
                    /\ DOMAIN dire \ KeptByBlueprint = MiddleOps
                    /\ Cardinality(KeptByBlueprint) = bar_width - 3

\* C27: when the ellipsis fallback does not trigger, every side of every op
\* that has a non-zero byte size keeps at least one column on that side after
\* the correction, in fill_line and in Blueprint; a Replace with sizeA > 0
\* and sizeB > 0 is never drawn with widthA = 0 or widthB = 0.
C27_EachSideKeepsAColumn ==
    (total > 0 /\ Overshoot <= BudgetSum) =>
        /\ (lines /= None /\ lines.status = "ok") =>
              \A n \in DOMAIN dire :
                  /\ dire[n].a > 0 => lines.blueprint[n][1] >= 1
                  /\ dire[n].b > 0 => lines.blueprint[n][2] >= 1
        /\ (bp /= None /\ bp.status = "ok") =>
              \A n \in DOMAIN dire :
                  /\ dire[n].a > 0 => bp.items[n].width1 >= 1
                  /\ dire[n].b > 0 => bp.items[n].width2 >= 1

\* C18: a render at a width below 3 for which the ellipsis cannot be avoided
\* (the overshoot exceeds the sum of the budgets) fails: neither fill_line
\* nor Blueprint returns a plan.
C18_NarrowWidthFails ==
    (total > 0 /\ bar_width < 3 /\ Overshoot > BudgetSum) =>
        /\ lines /= None => lines.status /= "ok"
        /\ bp /= None => bp.status /= "ok"

-----------------------------------------------------------------------------
(* Claims on Differ.dups (SpecDiffer) and on the parsed catalogs *)

\* the lines of a chunksums file have pairwise distinct overall hashes, and
\* files of non-zero size
DistinctHashesNonZero(lines_k) ==
    /\ \A m, n \in DOMAIN lines_k : m /= n => lines_k[m].hash /= lines_k[n].hash
    /\ \A n \in DOMAIN lines_k : lines_k[n].size /= 0

\* the entries of Differ.dups that pair the paths p and q, in either order
EntriesOf(p, q) ==
    {n \in DOMAIN dups.list :
        \/ dups.list[n].file1.path = p /\ dups.list[n].file2.path = q
        \/ dups.list[n].file1.path = q /\ dups.list[n].file2.path = p}

\* C11: when a catalog whose files have pairwise distinct overall hashes and
\* non-zero size is compared with itself, Differ.dups holds exactly one entry
\* for each unordered pair of distinct paths whose files share a chunk, never
\* both orientations, and no entry that pairs a path with itself.
C11_SelfCompareOnce ==
    (dups /= None /\ sums[1] = sums[2] /\ DistinctHashesNonZero(sums[1])) =>
        /\ dups.status = "ok"
        /\ \A p, q \in DictKeys(files[1]) :
              p /= q =>
                  Cardinality(EntriesOf(p, q)) =
                      IF ShareChunk(get_file(files[1], hashes[1], p).file.chunks,
                                    get_file(files[1], hashes[1], q).file.chunks)
                      THEN 1 ELSE 0
        /\ \A n \in DOMAIN dups.list : dups.list[n].file1.path /= dups.list[n].file2.path

\* the two files of a candidate pair, and what _compare gives for them
PairFile1(pr) == DictGet(hashes[1], pr[1])

PairFile2(pr) == DictGet(hashes[2], pr[2])

PairCompare(pr) == Differ_compare(PairFile1(pr).chunks, PairFile2(pr).chunks)

\* Differ.dups holds an entry for the two files of a candidate pair
Reported(pr) ==
    \E n \in DOMAIN dups.list :
        /\ dups.list[n].file1 = PairFile1(pr)
        /\ dups.list[n].file2 = PairFile2(pr)

\* C12: when the two catalogs are distinct collections, a candidate pair
\* whose two files have the same path and compare with ratio 1.0 is in the
\* result of Differ.dups.
C12_SamePathReportedAcrossCatalogs ==
    (dups /= None /\ dups.status = "ok" /\ sums[1] /= sums[2]) =>
        \A n \in DOMAIN pairs.list :
            (/\ PairFile1(pairs.list[n]).path = PairFile2(pairs.list[n]).path
             /\ PairCompare(pairs.list[n]).status = "ok"
             /\ PairCompare(pairs.list[n]).ratio.num = PairCompare(pairs.list[n]).ratio.den)
                => Reported(pairs.list[n])

\* C17: Differ.dups does not end with the failure of one pair's comparison:
\* the failing pair is skipped, and a pair of two different paths whose
\* comparison succeeds is reported, in one orientation.
C17_DupsSkipsFailingPair ==
    (dups /= None /\ \E n \in DOMAIN pairs.list : PairCompare(pairs.list[n]).status /= "ok") =>
        /\ dups.status = "ok"
        /\ \A n \in DOMAIN pairs.list :
              (/\ PairCompare(pairs.list[n]).status = "ok"
               /\ PairFile1(pairs.list[n]).path /= PairFile2(pairs.list[n]).path)
                  => \E k \in DOMAIN dups.list :
                         {dups.list[k].file1.path, dups.list[k].file2.path}
                             = {PairFile1(pairs.list[n]).path, PairFile2(pairs.list[n]).path}

\* the lines of a chunksums file have pairwise distinct paths and pairwise
\* distinct overall hashes
OneDescriptorPerPath(lines_k) ==
    \A m, n \in DOMAIN lines_k :
        m /= n => lines_k[m].path /= lines_k[n].path /\ lines_k[m].hash /= lines_k[n].hash

\* C28: when the two catalogs are distinct collections (here also: each
\* holding one descriptor for a path), every candidate pair of Differ._pairs
\* whose two files have different paths is in the result of Differ.dups,
\* also when another candidate pair has the sizes and paths of the two files
\* the other way round.
C28_DupsKeepsMirroredPair ==
    (/\ dups /= None
     /\ dups.status = "ok"
     /\ Range(sums[1]) /= Range(sums[2])
     /\ OneDescriptorPerPath(sums[1])
     /\ OneDescriptorPerPath(sums[2])) =>
        \A n \in DOMAIN pairs.list :
            PairFile1(pairs.list[n]).path /= PairFile2(pairs.list[n]).path
                => Reported(pairs.list[n])

\* the descriptor a catalog holds under a hash is the one its path names
Current(k, h) == DictGet(files[k], DictGet(hashes[k], h).path) = h

\* C20: when two descriptors with the same path and different overall hashes
\* are loaded by Chunksums.parse, the later one replaces the former: the
\* catalog holds one descriptor for each path, the one files names, and only
\* such descriptors own chunks in chunk2file_id and occur in _pairs.
C20_LaterReplacesFormer ==
    /\ \A k \in {1, 2} :
          /\ \A h \in DictKeys(hashes[k]) : Current(k, h)
          /\ c2f[k] /= None =>
                \A n \in DOMAIN c2f[k].map :
                    \A h \in Range(c2f[k].map[n][2]) : Current(k, h)
    /\ pairs /= None =>
          \A n \in DOMAIN pairs.list :
              Current(1, pairs.list[n][1]) /\ Current(2, pairs.list[n][2])

-----------------------------------------------------------------------------
(* Claims on the lookups (SpecLookup) *)

\* a path that no line of the file of catalog k has
NeverLoaded(k, path) == \A n \in DOMAIN sums[k] : sums[k][n].path /= path

\* C19: looking up a path that was never loaded into a catalog fails with a
\* not-found error, FileNotFoundError from Chunksums.get_file and
\* FileNotExists from chunkdiff.get_info, and the catalog is as it was parsed.
C19_LookupNotFound ==
    lookup /= None =>
        /\ NeverLoaded(lookup.catalog, lookup.path) =>
              /\ lookup.by = "get_file" => lookup.result.status = "FileNotFoundError"
              /\ lookup.by = "get_info" => lookup.result.status = "FileNotExists"
        /\ hashes = <<parse_hashes(<<>>, sums[1]), parse_hashes(<<>>, sums[2])>>
        /\ files = <<parse_files(<<>>, sums[1]), parse_files(<<>>, sums[2])>>
        /\ c2f = <<None, None>>

\* C19 witness: get_file has failed on a catalog of two files for a path that
\* none of them has
C19_Witness ==
    /\ lookup /= None
    /\ lookup.by = "get_file"
    /\ lookup.catalog = 1
    /\ Len(hashes[1]) = 2
    /\ Len(files[1]) = 2
    /\ NeverLoaded(1, lookup.path)
    /\ lookup.result.status = "FileNotFoundError"

-----------------------------------------------------------------------------
(* Claims on repeated renders (SpecRerender) *)

-----------------------------------------------------------------------------
(* Claims on iter_steps (SpecSteps) *)

\* how many of the first n items yielded are the index i
YieldsOf(i, n) == Cardinality({m \in 1..n : gen.yielded[m] = i})

\* the pass of "for i in order" that gave item n: an index is given once in
\* a pass, so its k-th yield is in pass k
PassOf(n) == YieldsOf(gen.yielded[n], n)

\* C24: iter_steps(stairs) yields each index i exactly stairs[i] times, sum
\* (stairs) items in all, and never an index whose budget is used up; the
\* passes follow one another, and within a pass the indexes come by
\* descending budget, equal budgets by ascending index; so after any prefix
\* of the yields two indexes differ by at most one decrement unless the one
\* with fewer is used up.  The yields are the list form of iter_steps that
\* the plan builders take their steps from.
C24_StepsRoundRobin ==
    gen /= None =>
        LET n == Len(gen.yielded)
            indexes == 0..(Len(stairs) - 1)
        IN /\ \A i \in indexes : YieldsOf(i, n) <= stairs[i + 1]
           /\ gen.status = "done" =>
                 /\ \A i \in indexes : YieldsOf(i, n) = stairs[i + 1]
                 /\ n = SumSeq(stairs)
           /\ \A i, j \in indexes :
                 YieldsOf(i, n) + 1 < YieldsOf(j, n) => YieldsOf(i, n) = stairs[i + 1]
           /\ \A m \in 1..(n - 1) :
                 LET x == gen.yielded[m]
                     y == gen.yielded[m + 1]
                 IN /\ PassOf(m) <= PassOf(m + 1)
                    /\ PassOf(m) = PassOf(m + 1) =>
                          \/ stairs[x + 1] > stairs[y + 1]
                          \/ stairs[x + 1] = stairs[y + 1] /\ x < y
           /\ gen.yielded = Take(iter_steps(stairs), n)

\* C24 witness: the generator is exhausted after more than one pass over a
\* list of MaxStairs budgets that holds two equal ones and a greater one
C24_Witness ==
    /\ gen /= None
    /\ gen.status = "done"
    /\ Len(stairs) = MaxStairs
    /\ \E i, j, k \in DOMAIN stairs :
          /\ i /= j /\ stairs[i] = stairs[j] /\ stairs[i] > 0
          /\ stairs[k] > stairs[i]
    /\ Len(gen.yielded) > Len(stairs)

-----------------------------------------------------------------------------
(* Claims on the memoized index (SpecIndex) *)

\* C21: after any sequence of descriptor additions to a Chunksums and of reads
\* of chunk2file_id, a read returns the inverted index of the descriptors the
\* catalog holds at the time of that read; a descriptor added after the first
\* read is in what the next read returns.
C21_ReadGivesCurrentIndex ==
    (lookup /= None /\ lookup.by = "chunk2file_id") =>
        lookup.result.map = chunk2file_id(lookup.hashes)

=============================================================================
